---------------------------- MODULE Spec2Model ----------------------------
(***************************************************************************)
(* A model of aip_compiler.py: the existence prober (url_exists), the date *)
(* resolver (find_valid_date_for_group), the document fetcher              *)
(* (download_pdf), the group enumerator with its thread pool               *)
(* (download_iterable_pdfs), the fixed fetch (download_fixed_pdf) and the  *)
(* module-level driver that compiles the groups in priority order.         *)
(***************************************************************************)
EXTENDS Integers, Sequences, FiniteSets, TLC

(***************************************************************************)
(* Program constants.                                                      *)
(***************************************************************************)
MIN_FILE_SIZE == 1024
MAX_WORKERS == 10
DATE_LIMIT_YEARS == 2
MAX_CONSECUTIVE_404S == 5
\* max_retries=3, the default parameter of url_exists and of download_pdf
max_retries == 3
\* the month probe of the date resolver gives up after 2 consecutive 404s
FIND_404S == 2

(***************************************************************************)
(* Bounds of the model.                                                    *)
(***************************************************************************)
\* whole runs: the publisher has no file beyond this ordinal in a group,
DrvMaxOrd == 1
\* serves at most this many files in all,
DrvMaxFiles == 2
\* and published nothing more than this many months before the start
DrvMaxBack == 1
\* the scheduler scenario: no file beyond this ordinal
SchedMaxOrd == 3
\* the runs of the date resolver start in the years 2024 .. 2024 + YearSpan
YearSpan == 1
\* the publisher has no file beyond this ordinal: a probe of a greater
\* ordinal is always answered 404 (enumeration scenario)
MaxOrd == 4
ProbeCap == 6
StableBack == 1
StableOrd == 2

None == <<>>

(***************************************************************************)
(* The HTTP collaborator: what one request can produce.                    *)
(***************************************************************************)
\* a requests.exceptions.RequestException raised by requests.head / get
\* (for get, raise_for_status turns an HTTP error status into one too)
RequestException == 0
\* the status codes one HEAD attempt may see, or a network-level failure
HeadOutcomes == {200, 404, 500, 503, RequestException}
\* the answers to the (at most max_retries) attempts of one call
HeadResponses == [1..max_retries -> HeadOutcomes]
\* the body sizes a GET may deliver (50: Scenario D), or a failure
BodySizes == {50, MIN_FILE_SIZE - 1, MIN_FILE_SIZE, 4096}
GetOutcomes == BodySizes \cup {RequestException}
GetResponses == [1..max_retries -> GetOutcomes]

\* 2 ** attempt, the backoff in seconds
RECURSIVE Pow2(_)
Pow2(n) == IF n = 0 THEN 1 ELSE 2 * Pow2(n - 1)

(***************************************************************************)
(* ProbeResult of the specification, read off the server's answers alone:  *)
(* the first definitive status among the attempts decides; none of them    *)
(* definitive is Indeterminate.                                            *)
(***************************************************************************)
RECURSIVE ClassifyFrom(_, _)
ClassifyFrom(resp, i) ==
    IF i > Len(resp) THEN "Indeterminate"
    ELSE IF resp[i] = 200 THEN "Exists"
    ELSE IF resp[i] = 404 THEN "ConfirmedAbsent"
    ELSE ClassifyFrom(resp, i + 1)

Classify(resp) == ClassifyFrom(resp, 1)

(***************************************************************************)
(* url_exists(url, max_retries=3), as a function of the answers the server *)
(* gives to its attempts.  The result records the returned boolean, the    *)
(* statuses of the HEAD requests issued and the trace of requests and      *)
(* backoff sleeps.                                                         *)
(***************************************************************************)
RECURSIVE url_exists_loop(_, _, _)
url_exists_loop(resp, attempt, acc) ==
    IF attempt >= max_retries
    THEN [acc EXCEPT !.ret = TRUE]                      \* line 63
    ELSE LET status == resp[attempt + 1]
             sent == [acc EXCEPT !.seen = Append(@, status),
                                 !.events = Append(@, "HEAD")]
         IN  IF status = RequestException
             THEN IF attempt + 1 = max_retries
                  THEN [sent EXCEPT !.ret = TRUE]       \* line 61
                  ELSE url_exists_loop(resp, attempt + 1,
                         [sent EXCEPT !.events = Append(@, "SLEEP"),
                                      !.sleeps = Append(@, Pow2(attempt))])
             ELSE IF status = 200 THEN [sent EXCEPT !.ret = TRUE]
             ELSE IF status = 404 THEN [sent EXCEPT !.ret = FALSE]
             ELSE url_exists_loop(resp, attempt + 1, sent)

\* as url_exists, but "return False" once the retries are exhausted
url_exists_fail_closed(resp) ==
    LET r == url_exists_loop(resp, 0,
                [ret |-> TRUE, seen |-> <<>>, events |-> <<>>, sleeps |-> <<>>])
    IN  [r EXCEPT !.ret = (r.seen[Len(r.seen)] = 200)]

\* as url_exists, but "return status == 200" on the first answer
url_exists_no_retry(resp) ==
    [ret |-> resp[1] = 200, seen |-> <<resp[1]>>, events |-> <<"HEAD">>,
     sleeps |-> <<>>]

\* as url_exists, but every one of the max_retries requests is made
url_exists_all_attempts(resp) ==
    LET r == url_exists_loop(resp, 0,
                [ret |-> TRUE, seen |-> <<>>, events |-> <<>>, sleeps |-> <<>>])
    IN  [r EXCEPT !.seen = resp,
                  !.events = [i \in 1..max_retries |-> "HEAD"]]

url_exists(resp) ==
    url_exists_loop(resp, 0,
        [ret |-> TRUE, seen |-> <<>>, events |-> <<>>, sleeps |-> <<>>])

(***************************************************************************)
(* The file storage collaborator: a function from stored names to sizes.   *)
(***************************************************************************)
Stored(store) == DOMAIN store
WriteFile(store, name, size) ==
    [n \in DOMAIN store \cup {name} |-> IF n = name THEN size ELSE store[n]]
RemoveFile(store, name) == [n \in DOMAIN store \ {name} |-> store[n]]
getsize(store, name) == store[name]

\* file_size < MIN_FILE_SIZE, the size validation of download_pdf
TooSmallLoose(file_size) == FALSE
TooSmall(file_size) == file_size < MIN_FILE_SIZE

(***************************************************************************)
(* download_pdf(url, filename, max_retries=3), as a function of the        *)
(* answers to its GET attempts and of the store it writes to.              *)
(***************************************************************************)
RECURSIVE download_pdf_loop(_, _, _, _)
download_pdf_loop(resp, filename, attempt, acc) ==
    IF attempt >= max_retries
    THEN [acc EXCEPT !.ret = FALSE]                     \* line 126
    ELSE LET body == resp[attempt + 1]
             sent == [acc EXCEPT !.seen = Append(@, body)]
         IN  IF body = RequestException
             THEN IF attempt + 1 = max_retries
                  THEN [sent EXCEPT !.ret = FALSE]      \* line 123
                  ELSE download_pdf_loop(resp, filename, attempt + 1, sent)
             ELSE LET written == WriteFile(sent.store, filename, body)
                      file_size == getsize(written, filename)
                  IN  IF TooSmall(file_size)
                      THEN [sent EXCEPT !.ret = FALSE,
                                        !.store = RemoveFile(written, filename),
                                        !.removed = TRUE]
                      ELSE [sent EXCEPT !.ret = TRUE, !.store = written]

\* as download_pdf, but with the last attempt only
download_pdf_last_attempt(store, filename, resp) ==
    download_pdf_loop(resp, filename, max_retries - 1,
        [ret |-> FALSE, seen |-> <<>>, store |-> store, removed |-> FALSE])

download_pdf(store, filename, resp) ==
    download_pdf_loop(resp, filename, 0,
        [ret |-> FALSE, seen |-> <<>>, store |-> store, removed |-> FALSE])

(***************************************************************************)
(* datetime: a date is [year, month, day]; the time of day of current_date *)
(* is carried unchanged by replace and by timedelta(days=1), so it never   *)
(* decides a comparison.                                                   *)
(***************************************************************************)
IsLeap(y) == (y % 4 = 0 /\ y % 100 # 0) \/ y % 400 = 0

DaysInMonth(y, m) ==
    IF m = 2 THEN (IF IsLeap(y) THEN 29 ELSE 28)
    ELSE IF m \in {4, 6, 9, 11} THEN 30 ELSE 31

ValidDate(dt) ==
    /\ dt.month \in 1..12
    /\ dt.day \in 1..DaysInMonth(dt.year, dt.month)

\* dt - timedelta(days=1)
MinusOneDay(dt) ==
    IF dt.day > 1 THEN [dt EXCEPT !.day = dt.day - 1]
    ELSE IF dt.month > 1
         THEN [year |-> dt.year, month |-> dt.month - 1,
               day |-> DaysInMonth(dt.year, dt.month - 1)]
         ELSE [year |-> dt.year - 1, month |-> 12, day |-> 31]

\* line 96: test_date.replace(day=1) - timedelta(days=1)
StepBack(dt) == MinusOneDay([dt EXCEPT !.day = 1])

\* line 68: test_date.replace(year=test_date.year - DATE_LIMIT_YEARS);
\* datetime.replace raises ValueError when the result is no date
LimitDate(dt) == [dt EXCEPT !.year = dt.year - DATE_LIMIT_YEARS]
ReplaceRaises(dt) == ~ValidDate(LimitDate(dt))

\* line 70: test_date >= limit_date
DateGE(a, b) ==
    \/ a.year > b.year
    \/ a.year = b.year /\ a.month > b.month
    \/ a.year = b.year /\ a.month = b.month /\ a.day >= b.day

\* test_date.strftime("%Y-%m")
strftime(dt) == <<dt.year, dt.month>>

\* calendar months counted from year 0, and back
MonthIndex(ym) == ym[1] * 12 + ym[2] - 1
MonthOfIndex(n) == <<n \div 12, (n % 12) + 1>>

(***************************************************************************)
(* The document groups, in the priority order of the driver.               *)
(***************************************************************************)
\* the keys of url_templates, in their insertion order
url_templates == <<"General", "EnRoute", "Aerodromes", "Additional_Aerodromes">>
\* the keys of fixed_urls
fixed_urls == {"Heading", "Amendment"}
IterableGroups == {url_templates[i] : i \in 1..Len(url_templates)}
\* the is_iterable argument the driver passes for the group
is_iterable(g) == g \in IterableGroups
\* Heading first, the iterable groups, Amendment last
GroupOrder == <<"Heading">> \o url_templates \o <<"Amendment">>
Groups == {GroupOrder[i] : i \in 1..Len(GroupOrder)}

\* os.path.join(output_dir, f"{group_name}_{iter_num}.pdf")
iterable_filename_no_ordinal(group_name, n) == <<group_name, "_", 0, ".pdf">>
iterable_filename(group_name, n) == <<group_name, "_", n, ".pdf">>
\* os.path.join(output_dir, f"{group_name}.pdf")
fixed_filename(group_name) == <<group_name, ".pdf">>

(***************************************************************************)
(* State.                                                                  *)
(***************************************************************************)
VARIABLES
    pc,                  \* the statement the main thread is at
    current_date,        \* datetime.now() at startup
    group_name,          \* the group being resolved or downloaded
    test_date,           \* find_valid_date_for_group: the month being tested
    limit_date,          \* find_valid_date_for_group: the horizon
    find_iter_num,       \* find_valid_date_for_group: iter_num
    find_404s,           \* find_valid_date_for_group: consecutive_404s
    group_date,          \* what find_valid_date_for_group returned
    walk,                \* history: every probe of the date resolver
    steps,               \* history: the backward steps of the date resolver
    iter_num,            \* download_iterable_pdfs: the ordinal to probe next
    consecutive_404s,    \* download_iterable_pdfs: the miss counter
    tasks,               \* download_iterable_pdfs: (future, filename), in submission order
    futures,             \* the state of each submitted future
    collected,           \* the tasks the collection loop has been through
    downloaded_files,    \* download_iterable_pdfs: the list it returns
    store,               \* the files under output_dir, with their sizes
    probes,              \* history: the result of every probe of the enumeration
    fetched,             \* history: the last answer to every finished task's GETs
    server,              \* the publisher's behaviour in this run (never changes)
                         \* and whether compiled_months is kept
    overtaken,           \* history: a task completed before one submitted earlier
    gi,                  \* the driver's position in GroupOrder
    all_downloaded_files,\* the driver's list, handed to the merger
    output,              \* what the merger wrote: its name and its pages
    not_found,           \* history: the groups for which the resolver returned None
    dl_groups,           \* history: the groups that were probed for download or fetched
    compiled_months,     \* history: the dates resolved for the groups with a compiled file
    fn_in,               \* the answers given to a call of url_exists / download_pdf
    fn_out               \* what that call produced

enumVars == <<iter_num, consecutive_404s, tasks, futures, collected,
              downloaded_files, probes, fetched, overtaken>>
driverVars == <<gi, all_downloaded_files, output>>
histVars == <<dl_groups, not_found, compiled_months>>
findVars == <<test_date, limit_date, find_iter_num, find_404s, group_date,
              walk, steps>>
fnVars == <<fn_in, fn_out>>
vars == <<pc, current_date, group_name, findVars, enumVars, driverVars, histVars,
          store, server, fnVars>>

Range(s) == {s[i] : i \in 1..Len(s)}

(***************************************************************************)
(* The answers the server gives to the probes of an enumeration.           *)
(***************************************************************************)
ProbeScenarios ==
    { <<200, 200, 200>>, <<404, 404, 404>>,
      <<500, 404, 200>>, <<RequestException, 503, 200>>,
      <<503, RequestException, 500>>,
      <<RequestException, RequestException, RequestException>> }

DefinitiveProbes == {r \in ProbeScenarios : Classify(r) # "Indeterminate"}

\* a stable server: one that has a field has, the set of the files
\* <<months back, ordinal>> it publishes; it answers 200 for these at every
\* request and 404 for all others
StableServer == "has" \in DOMAIN server
StableAnswer(r, back, n) ==
    StableServer =>
        Classify(r) = IF <<back, n>> \in server.has THEN "Exists" ELSE "ConfirmedAbsent"

\* the months between the current month and the month date
BackOf(date) == MonthIndex(strftime(current_date)) - MonthIndex(date)

\* the files served so far: those compiled and those of the tasks submitted
served == Len(all_downloaded_files) + Len(tasks)

\* the server's answers to the probe of ordinal n: it has no file beyond
\* ordinal server.maxord, and no more than server.maxfiles files in all
EnumAnswers(n) ==
    { r \in server.heads :
        /\ (n > server.maxord \/ served >= server.maxfiles)
              => Classify(r) = "ConfirmedAbsent"
        /\ StableAnswer(r, BackOf(group_date), n) }

\* the bodies the server gives to the GET attempts of one task
FetchScenarios ==
    { <<RequestException, MIN_FILE_SIZE, 50>>,
      <<50, 4096, 4096>>,
      <<RequestException, MIN_FILE_SIZE - 1, 4096>>,
      <<RequestException, RequestException, RequestException>> }
GoodFetches == {r \in FetchScenarios : download_pdf(<<>>, <<"f">>, r).ret}

\* the server's answers to a probe of the date resolver, n months back: it
\* publishes nothing more than server.maxback months before the start
FindAnswers(n) ==
    { r \in server.heads :
        /\ n > server.maxback => Classify(r) = "ConfirmedAbsent"
        /\ StableAnswer(r, n, find_iter_num) }

(***************************************************************************)
(* find_valid_date_for_group(test_url_template, is_iterable)               *)
(***************************************************************************)
\* line 70: while test_date >= limit_date -- where the resolver goes with
\* test_date at dt: to the probes of that month, or to "return None"
WhileTarget(dt, limit) == IF DateGE(dt, limit) THEN "find_probe" ELSE "find_return"

\* the history of the groups not found, once the loop test has led to target
ReturnedNone(target) ==
    IF target = "find_return" THEN not_found \cup {group_name} ELSE not_found

\* lines 67-70: test_date and limit_date; replace raises ValueError when
\* the day does not exist DATE_LIMIT_YEARS earlier, which nothing catches
FindBegin ==
    /\ pc = "find_begin"
    /\ test_date' = current_date
    /\ walk' = <<>>
    /\ steps' = 0
    /\ find_iter_num' = 0
    /\ find_404s' = 0
    /\ group_date' = None
    /\ \/ /\ ~ReplaceRaises(current_date)
          /\ limit_date' = LimitDate(current_date)
          /\ pc' = WhileTarget(current_date, LimitDate(current_date))
          /\ not_found' = ReturnedNone(WhileTarget(current_date, LimitDate(current_date)))
       \/ /\ ReplaceRaises(current_date)
          /\ UNCHANGED not_found
          /\ limit_date' = None
          /\ pc' = "aborted"
    /\ UNCHANGED <<current_date, group_name, enumVars, driverVars, dl_groups,
                   compiled_months, store,
                   server, fnVars>>

\* lines 71-96: one probe of the month test_date; when the month is given
\* up, one month back (line 96) and the loop test again (line 70, and
\* lines 98-100 when it fails)
FindProbe ==
    /\ pc = "find_probe"
    /\ \E resp \in FindAnswers(steps) :
         LET date_str == strftime(test_date)
             exists == url_exists(resp).ret
         IN  /\ walk' = Append(walk, [month |-> date_str,
                                      back |-> steps,
                                      iter |-> IF is_iterable(group_name)
                                               THEN find_iter_num ELSE -1,
                                      result |-> Classify(resp)])
             /\ \/ /\ exists
                   /\ group_date' = date_str
                   /\ pc' = "find_return"
                   /\ UNCHANGED <<test_date, steps, find_iter_num, find_404s, not_found>>
                \/ /\ ~exists
                   /\ is_iterable(group_name)
                   /\ find_404s + 1 < FIND_404S
                   /\ find_404s' = find_404s + 1
                   /\ find_iter_num' = find_iter_num + 1
                   /\ UNCHANGED <<pc, test_date, steps, group_date, not_found>>
                \/ /\ ~exists
                   /\ is_iterable(group_name) => find_404s + 1 >= FIND_404S
                   /\ test_date' = StepBack(test_date)
                   /\ steps' = steps + 1
                   /\ find_iter_num' = 0
                   /\ find_404s' = 0
                   /\ pc' = WhileTarget(StepBack(test_date), limit_date)
                   /\ not_found' = ReturnedNone(WhileTarget(StepBack(test_date), limit_date))
                   /\ UNCHANGED group_date
    /\ UNCHANGED <<current_date, group_name, limit_date, enumVars, driverVars,
                   dl_groups, compiled_months, store, server, fnVars>>

(***************************************************************************)
(* download_iterable_pdfs(group_name, url_template, date)                  *)
(***************************************************************************)
\* lines 130-135: the locals, and the executor is entered
EnumBegin ==
    /\ pc = "enum_begin"
    /\ downloaded_files' = <<>>
    /\ iter_num' = 0
    /\ consecutive_404s' = 0
    /\ tasks' = <<>>
    /\ futures' = <<>>
    /\ collected' = {}
    /\ probes' = <<>>
    /\ fetched' = <<>>
    /\ overtaken' = FALSE
    /\ pc' = "enum_loop"
    /\ UNCHANGED <<current_date, group_name, findVars, driverVars, histVars, store,
                   server, fnVars>>

\* line 136: while consecutive_404s < MAX_CONSECUTIVE_404S
LoopGuardOnce(n) == n < FIND_404S - 1
LoopGuardOff(n) == n < MAX_CONSECUTIVE_404S - 1
LoopGuard(n) == n < MAX_CONSECUTIVE_404S

\* lines 141 and 145: the counter after a probe that returned exists
CountNoReset(exists, n) == IF exists THEN n ELSE n + 1
Count(exists, n) == IF exists THEN 0 ELSE n + 1

\* lines 137-150: one iteration of the probing loop
EnumProbe ==
    /\ pc = "enum_loop"
    /\ LoopGuard(consecutive_404s)
    /\ \E resp \in EnumAnswers(iter_num) :
         LET filename == iterable_filename(group_name, iter_num)
             exists == url_exists(resp).ret
         IN  /\ consecutive_404s' = Count(exists, consecutive_404s)
             /\ IF exists
                THEN /\ tasks' = Append(tasks, [future |-> Len(tasks) + 1,
                                                filename |-> filename,
                                                iter |-> iter_num])
                     /\ futures' = Append(futures, [done |-> FALSE, result |-> FALSE])
                     /\ fetched' = Append(fetched, None)
                ELSE UNCHANGED <<tasks, futures, fetched>>
             /\ probes' = Append(probes, [iter |-> iter_num, result |-> Classify(resp)])
    /\ dl_groups' = dl_groups \cup {group_name}
    /\ iter_num' = iter_num + 1
    /\ UNCHANGED <<pc, current_date, group_name, findVars, collected, downloaded_files,
                   overtaken, driverVars, not_found, compiled_months, store, server,
                   fnVars>>

\* lines 152-153: the loop is left
EnumStop ==
    /\ pc = "enum_loop"
    /\ ~LoopGuard(consecutive_404s)
    /\ pc' = "enum_collect"
    /\ UNCHANGED <<current_date, group_name, findVars, enumVars, driverVars, histVars, store, server, fnVars>>

\* a pool of MAX_WORKERS threads takes the submitted tasks in FIFO order:
\* task i has been started when fewer than MAX_WORKERS earlier ones still run
Started(i) ==
    Cardinality({j \in 1..(i - 1) : ~futures[j].done}) < MAX_WORKERS

\* a worker thread runs download_pdf(url, filename) of task i to its end
Worker(i) ==
    /\ pc \in {"enum_loop", "enum_collect"}
    /\ i \in 1..Len(tasks)
    /\ ~futures[i].done
    /\ Started(i)
    /\ \E resp \in server.gets :
         LET r == download_pdf(store, tasks[i].filename, resp)
         IN  /\ futures' = [futures EXCEPT ![i] = [done |-> TRUE, result |-> r.ret]]
             /\ store' = r.store
             /\ fetched' = [fetched EXCEPT ![i] = <<r.seen[Len(r.seen)]>>]
    /\ overtaken' = (overtaken \/ \E j \in 1..(i - 1) : ~futures[j].done)
    /\ UNCHANGED <<pc, current_date, group_name, findVars, iter_num, consecutive_404s,
                   tasks, collected, downloaded_files, probes, driverVars, histVars,
                   server, fnVars>>

\* the tasks a loop over as_completed(futures) may handle next
NextAsCompleted(done) == {i \in 1..Len(tasks) : futures[i].done /\ i \notin done}
\* line 155: for future, filename in tasks -- the task handled next, after
\* the tasks in done
NextInOrder(done) == {i \in 1..Len(tasks) : i = Cardinality(done) + 1}

\* line 157: if success
Keep(success) == success

\* lines 155-158: future.result() of the next task, once it is done
EnumCollect ==
    /\ pc = "enum_collect"
    /\ \E i \in NextInOrder(collected) :
         /\ futures[i].done
         /\ downloaded_files' =
               IF Keep(futures[i].result)
               THEN Append(downloaded_files, tasks[i].filename)
               ELSE downloaded_files
         /\ collected' = collected \cup {i}
    /\ UNCHANGED <<pc, current_date, group_name, findVars, iter_num, consecutive_404s,
                   tasks, futures, probes, fetched, overtaken, driverVars, histVars,
                   store, server, fnVars>>

\* lines 155-156: the for loop, blocking in future.result(), has been
\* through every task
LoopOverEarly(done) == TRUE
LoopOver(done) == done = 1..Len(tasks)

\* line 160: every task collected, the executor is left, the list returned
EnumReturn ==
    /\ pc = "enum_collect"
    /\ LoopOver(collected)
    /\ pc' = "enum_return"
    /\ UNCHANGED <<current_date, group_name, findVars, enumVars, driverVars, histVars, store, server, fnVars>>

(***************************************************************************)
(* The module-level driver: Step 1 (lines 175-206) and Step 2 (208-221).   *)
(***************************************************************************)
\* the server's answers to the probe of download_fixed_pdf
FixedAnswers ==
    { r \in server.heads :
        served >= server.maxfiles => Classify(r) = "ConfirmedAbsent" }

\* lines 181, 192, 202: if heading_date / group_date / amendment_date
ResolvedAlways(date) == TRUE
Resolved(date) == date # None

\* lines 185, 196, 206: all_downloaded_files.extend(files)
extend_front(list, files) == files \o list
extend(list, files) == list \o files

\* the resolved dates of the groups with a compiled file, once the group at
\* hand has given files to the list; the history is kept in the runs whose
\* server.months says so
CompiledFrom(files) ==
    IF server.months /\ files # <<>>
    THEN compiled_months \cup {group_date}
    ELSE compiled_months

\* what follows the block of one group: the next group, or Step 2
Advance ==
    /\ gi' = gi + 1
    /\ IF gi < Len(GroupOrder)
       THEN /\ group_name' = GroupOrder[gi + 1]
            /\ pc' = "find_begin"
       ELSE /\ group_name' = group_name
            /\ pc' = "merge"

\* the tasks of the pool that are still to complete
RECURSIVE Pending(_, _)
Pending(seq, i) ==
    IF i > Len(seq) THEN <<>>
    ELSE IF futures[i].done THEN Pending(seq, i + 1)
    ELSE <<seq[i]>> \o Pending(seq, i + 1)

\* the date resolver has returned to the driver; its locals are gone
AfterFind ==
    /\ pc = "find_return"
    /\ test_date' = None
    /\ limit_date' = None
    /\ find_iter_num' = 0
    /\ find_404s' = 0
    /\ walk' = <<>>
    /\ steps' = 0
    /\ \/ /\ ~Resolved(group_date)
          /\ Advance
       \/ /\ Resolved(group_date)
          /\ is_iterable(group_name)
          /\ pc' = "enum_begin"
          /\ UNCHANGED <<gi, group_name>>
       \/ /\ Resolved(group_date)
          /\ ~is_iterable(group_name)
          /\ pc' = "fixed"
          /\ UNCHANGED <<gi, group_name>>
    /\ UNCHANGED <<current_date, group_date, enumVars, all_downloaded_files, output,
                   histVars, store, server, fnVars>>

\* lines 163-172: download_fixed_pdf, and the extend of lines 185 / 206
DownloadFixed ==
    /\ pc = "fixed"
    /\ LET filename == fixed_filename(group_name)
       IN  \E head \in FixedAnswers :
             \/ /\ ~url_exists(head).ret
                /\ UNCHANGED <<store, all_downloaded_files, compiled_months>>
             \/ /\ url_exists(head).ret
                /\ \E resp \in server.gets :
                     LET r == download_pdf(store, filename, resp)
                     IN  /\ store' = r.store
                         /\ all_downloaded_files' =
                               extend(all_downloaded_files,
                                      IF r.ret THEN <<filename>> ELSE <<>>)
                         /\ compiled_months' =
                               CompiledFrom(IF r.ret THEN <<filename>> ELSE <<>>)
    /\ dl_groups' = dl_groups \cup {group_name}
    /\ Advance
    /\ UNCHANGED <<current_date, findVars, enumVars, output, not_found, server, fnVars>>

\* line 196: download_iterable_pdfs has returned to the driver; its locals
\* are gone, the tasks of its pool are not until they complete
AfterEnum ==
    /\ pc = "enum_return"
    /\ all_downloaded_files' = extend(all_downloaded_files, downloaded_files)
    /\ tasks' = Pending(tasks, 1)
    /\ futures' = Pending(futures, 1)
    /\ fetched' = Pending(fetched, 1)
    /\ iter_num' = 0
    /\ consecutive_404s' = 0
    /\ collected' = {}
    /\ downloaded_files' = <<>>
    /\ probes' = <<>>
    /\ Advance
    /\ compiled_months' = CompiledFrom(downloaded_files)
    /\ UNCHANGED <<current_date, findVars, overtaken, output, dl_groups, not_found,
                   store, server, fnVars>>

\* line 214: the name of the compiled document
output_pdf == <<"aip_uruguay_compiled_", strftime(current_date), ".pdf">>

\* line 209: if all_downloaded_files
NonEmptyAlways(list) == TRUE
NonEmpty(list) == list # <<>>

\* lines 209-221: Step 2, the merge
Merge ==
    /\ pc = "merge"
    /\ \/ /\ NonEmpty(all_downloaded_files)
          /\ output' = [name |-> output_pdf, pages |-> all_downloaded_files]
       \/ /\ ~NonEmpty(all_downloaded_files)
          /\ UNCHANGED output
    /\ pc' = "done"
    /\ UNCHANGED <<current_date, group_name, findVars, enumVars, gi,
                   all_downloaded_files, histVars, store, server, fnVars>>

(***************************************************************************)
(* The enumeration of one group, on its own.                               *)
(***************************************************************************)
\* the state before any call
Today == [year |-> 2025, month |-> 2, day |-> 23]

FindIdle ==
    /\ test_date = None
    /\ limit_date = None
    /\ find_iter_num = 0
    /\ find_404s = 0
    /\ group_date = None
    /\ walk = <<>>
    /\ steps = 0

EnumIdle ==
    /\ iter_num = 0
    /\ consecutive_404s = 0
    /\ tasks = <<>>
    /\ futures = <<>>
    /\ collected = {}
    /\ downloaded_files = <<>>
    /\ probes = <<>>
    /\ fetched = <<>>
    /\ overtaken = FALSE

DriverIdle ==
    /\ gi = 1
    /\ all_downloaded_files = <<>>
    /\ output = None
    /\ not_found = {}
    /\ dl_groups = {}
    /\ compiled_months = {}

FnIdle ==
    /\ fn_in = None
    /\ fn_out = None

InitEnum ==
    /\ pc = "enum_begin"
    /\ current_date = Today
    /\ group_name = "General"
    /\ FindIdle
    /\ EnumIdle
    /\ DriverIdle
    /\ store = <<>>
    /\ server = [heads |-> ProbeScenarios, gets |-> GoodFetches, maxord |-> MaxOrd,
                 maxfiles |-> MaxOrd + 1, maxback |-> 0,
                 months |-> FALSE]
    /\ FnIdle

NextEnum ==
    \/ EnumBegin
    \/ EnumProbe
    \/ EnumStop
    \/ \E i \in 1..Len(tasks) : Worker(i)
    \/ EnumCollect
    \/ EnumReturn

SpecEnum == InitEnum /\ [][NextEnum]_vars

(***************************************************************************)
(* Reading the probe history.                                              *)
(***************************************************************************)
\* the number of ConfirmedAbsent results the history ends with
RECURSIVE TrailingAbsent(_)
TrailingAbsent(hist) ==
    IF hist = <<>> \/ hist[Len(hist)].result # "ConfirmedAbsent" THEN 0
    ELSE 1 + TrailingAbsent(SubSeq(hist, 1, Len(hist) - 1))

\* the probes that end a run of (at least) n consecutive ConfirmedAbsent
RunEnds(hist, n) ==
    { k \in n..Len(hist) :
        \A j \in (k - n + 1)..k : hist[j].result = "ConfirmedAbsent" }

Results(hist) == [i \in 1..Len(hist) |-> hist[i].result]

Stopped == pc \in {"enum_collect", "enum_return"}

\* the files of the ordinals whose probe was not ConfirmedAbsent, ascending
RECURSIVE FilesOfFound(_, _)
FilesOfFound(g, hist) ==
    IF hist = <<>> THEN <<>>
    ELSE LET last == hist[Len(hist)]
             init == FilesOfFound(g, SubSeq(hist, 1, Len(hist) - 1))
         IN  IF last.result = "ConfirmedAbsent" THEN init
             ELSE Append(init, iterable_filename(g, last.iter))

ScenarioA ==
    [i \in 1..(4 + MAX_CONSECUTIVE_404S) |->
        IF i <= 4 THEN "Exists" ELSE "ConfirmedAbsent"]

(***************************************************************************)
(* C1: the enumeration probes the ordinals 0, 1, 2, ... in ascending       *)
(* order, leaves its loop exactly after the probe that completes the first *)
(* run of MAX_CONSECUTIVE_404S consecutive ConfirmedAbsent results, never  *)
(* earlier and never probing beyond it; with every fetch succeeding the    *)
(* returned list is the files of the ordinals found, so Scenario A         *)
(* (ordinals 0-3 exist, the next T are absent) returns [0, 1, 2, 3].       *)
(***************************************************************************)
StopsExactlyAtTolerance ==
    /\ \A i \in 1..Len(probes) : probes[i].iter = i - 1
    /\ iter_num = Len(probes)
    /\ RunEnds(probes, MAX_CONSECUTIVE_404S) \subseteq {Len(probes)}
    /\ Stopped => RunEnds(probes, MAX_CONSECUTIVE_404S) = {Len(probes)}
    /\ (pc = "enum_loop" /\ RunEnds(probes, MAX_CONSECUTIVE_404S) # {})
            => ~ENABLED EnumProbe
    /\ pc = "enum_return" => downloaded_files = FilesOfFound(group_name, probes)
    /\ (pc = "enum_return" /\ Results(probes) = ScenarioA)
            => downloaded_files = [i \in 1..4 |-> iterable_filename(group_name, i - 1)]

ScenarioAReturned ==
    /\ pc = "enum_return"
    /\ Results(probes) = ScenarioA
    /\ Len(downloaded_files) = 4

(***************************************************************************)
(* C2: a gap of at most T-1 consecutive ConfirmedAbsent ordinals (also one *)
(* that starts at ordinal 0) does not end the enumeration: the loop is     *)
(* still running inside the gap and probes the next ordinal, and an        *)
(* existing ordinal after the gap resets the miss counter to zero and gets *)
(* a download task.                                                        *)
(***************************************************************************)
ContinuesPastShortGaps ==
    /\ (pc # "enum_begin" /\ TrailingAbsent(probes) < MAX_CONSECUTIVE_404S)
            => (pc = "enum_loop" /\ ENABLED EnumProbe)
    /\ pc # "enum_begin" => consecutive_404s = TrailingAbsent(probes)
    /\ \A i \in 1..Len(probes) :
          probes[i].result = "Exists"
            => \E k \in 1..Len(tasks) :
                  /\ tasks[k].iter = probes[i].iter
                  /\ tasks[k].filename = iterable_filename(group_name, probes[i].iter)
    /\ (probes # <<>> /\ probes[Len(probes)].result = "Exists")
            => (consecutive_404s = 0 /\ tasks[Len(tasks)].iter = iter_num - 1)

GapFromZeroThenFound ==
    /\ Results(probes) =
         [i \in 1..MAX_CONSECUTIVE_404S |->
            IF i < MAX_CONSECUTIVE_404S THEN "ConfirmedAbsent" ELSE "Exists"]
    /\ consecutive_404s = 0
    /\ Len(tasks) = 1
    /\ tasks[1].iter = MAX_CONSECUTIVE_404S - 1

(***************************************************************************)
(* C3: an Indeterminate probe never counts toward termination: it resets   *)
(* the miss counter, the loop goes on to the next ordinal, and so the      *)
(* enumeration never stops at the end of T consecutive misses one of which *)
(* was Indeterminate instead of ConfirmedAbsent.                           *)
(***************************************************************************)
IndeterminateNeverCounts ==
    /\ (probes # <<>> /\ probes[Len(probes)].result = "Indeterminate")
            => /\ consecutive_404s = 0
               /\ pc = "enum_loop"
               /\ ENABLED EnumProbe
               /\ tasks # <<>> /\ tasks[Len(tasks)].iter = iter_num - 1
    /\ \A k \in 1..Len(probes) :
          (\E j \in 1..k : /\ k - j < MAX_CONSECUTIVE_404S
                            /\ probes[j].result = "Indeterminate")
            => (Len(probes) = k => ~Stopped)

\* T consecutive misses with one Indeterminate among them: still enumerating
IndeterminateInsideRun ==
    /\ Len(probes) = MAX_CONSECUTIVE_404S
    /\ probes[3].result = "Indeterminate"
    /\ \A i \in 1..Len(probes) : i # 3 => probes[i].result = "ConfirmedAbsent"
    /\ pc = "enum_loop"
    /\ consecutive_404s = 2

(***************************************************************************)
(* url_exists on its own: one call, for every way the server can answer    *)
(* its attempts.                                                           *)
(***************************************************************************)
InitProbe ==
    /\ pc = "probe_call"
    /\ current_date = Today
    /\ group_name = "General"
    /\ FindIdle
    /\ EnumIdle
    /\ DriverIdle
    /\ store = <<>>
    /\ server = [heads |-> HeadResponses, gets |-> {}, maxord |-> 0, maxfiles |-> 0,
                 maxback |-> 0, months |-> FALSE]
    /\ fn_in \in server.heads
    /\ fn_out = None

ProbeCall ==
    /\ pc = "probe_call"
    /\ fn_out' = url_exists(fn_in)
    /\ pc' = "probe_done"
    /\ UNCHANGED <<current_date, group_name, findVars, enumVars, driverVars, histVars,
                   store, server, fn_in>>

NextProbe == ProbeCall

SpecProbe == InitProbe /\ [][NextProbe]_vars

\* the statuses the call received: its attempts up to the first 200 or 404
RECURSIVE Received(_, _)
Received(resp, i) ==
    IF i > Len(resp) THEN <<>>
    ELSE IF resp[i] \in {200, 404} THEN <<resp[i]>>
    ELSE <<resp[i]>> \o Received(resp, i + 1)

(***************************************************************************)
(* C4: url_exists reports absence only on a confirmed 404: it returns      *)
(* False only if one of the attempts it made was answered 404, and it      *)
(* returns True (fail open) whenever every attempt ended in another        *)
(* status or in a network-level failure, in any mixture.                   *)
(***************************************************************************)
AbsentOnlyOn404 ==
    pc = "probe_done" =>
        /\ ~fn_out.ret => 404 \in Range(Received(fn_in, 1))
        /\ ~fn_out.ret <=> Classify(fn_in) = "ConfirmedAbsent"
        /\ (\A i \in 1..max_retries : fn_in[i] \notin {200, 404}) => fn_out.ret
        /\ fn_out.seen = Received(fn_in, 1)

\* a mixture of statuses and a network failure, no 200 and no 404: True
FailOpenOnMixture ==
    /\ pc = "probe_done"
    /\ fn_in = <<500, RequestException, 503>>
    /\ fn_out.ret

(***************************************************************************)
(* The date resolver on its own: one call for a fixed-name group or an     *)
(* iterable group, from any start date, against any server.                *)
(***************************************************************************)
StartDays == {1, 15, 28, 29, 30, 31}
StartDates ==
    { dt \in [year : 2024..(2024 + YearSpan), month : 1..12, day : StartDays] :
        ValidDate(dt) }

InitDate ==
    /\ pc = "find_begin"
    /\ current_date \in StartDates
    /\ group_name \in {"Heading", "General"}
    /\ FindIdle
    /\ EnumIdle
    /\ DriverIdle
    /\ store = <<>>
    /\ server = [heads |-> ProbeScenarios, gets |-> {}, maxord |-> 0, maxfiles |-> 0,
                 maxback |-> 12 * DATE_LIMIT_YEARS, months |-> FALSE]
    /\ FnIdle

NextDate ==
    \/ FindBegin
    \/ FindProbe

SpecDate == InitDate /\ [][NextDate]_vars

(***************************************************************************)
(* Reading the walk of the date resolver.                                  *)
(***************************************************************************)
\* the calendar month k months before the month of the start date
MonthsBefore(k) == MonthOfIndex(MonthIndex(strftime(current_date)) - k)

HorizonMonths == 12 * DATE_LIMIT_YEARS

\* the probes one month takes when every one of them is ConfirmedAbsent
ProbesPerMonth == IF is_iterable(group_name) THEN FIND_404S ELSE 1

FindEnded == pc \in {"find_return", "aborted"}

\* every probe is of the month exactly as many calendar months before the
\* start as backward steps were made, and no month is skipped
WalkByCalendarMonth ==
    /\ \A i \in 1..Len(walk) : walk[i].month = MonthsBefore(walk[i].back)
    /\ \A i \in 1..Len(walk) :
          walk[i].back = (IF i = 1 THEN 0 ELSE walk[i - 1].back)
          \/ /\ i > 1
             /\ walk[i].back = walk[i - 1].back + 1
    /\ walk # <<>> => walk[Len(walk)].back \in {steps, steps - 1}

\* the months before the one returned were probed to the end, all absent
CloserMonthsAbsent ==
    /\ \A i \in 1..(Len(walk) - 1) : walk[i].result = "ConfirmedAbsent"
    /\ \A k \in 0..(steps - 1) :
          Cardinality({i \in 1..Len(walk) : walk[i].back = k}) = ProbesPerMonth

ReturnedFirstConfirmed ==
    (pc = "find_return" /\ group_date # None)
        => /\ group_date = MonthsBefore(steps)
           /\ walk # <<>>
           /\ walk[Len(walk)].result # "ConfirmedAbsent"
           /\ walk[Len(walk)].back = steps
           /\ CloserMonthsAbsent

(***************************************************************************)
(* C7: from every start date the resolver walks back exactly one calendar  *)
(* month per step, no month skipped or repeated, and returns the first     *)
(* month at which a probe confirms existence: a group found k months       *)
(* before now, every closer month ConfirmedAbsent, is returned after       *)
(* exactly k backward steps.                                               *)
(***************************************************************************)
ReturnsFirstConfirmedMonth ==
    /\ WalkByCalendarMonth
    /\ ReturnedFirstConfirmed
    /\ FindEnded => pc = "find_return"

\* the same, for the calls that get past the computation of the horizon
ReturnsFirstConfirmedMonthUnlessRaised ==
    /\ WalkByCalendarMonth
    /\ ReturnedFirstConfirmed

\* Scenario B: found 3 months back, after 3 backward steps
ScenarioB ==
    /\ pc = "find_return"
    /\ steps = 3
    /\ group_date = MonthsBefore(3)
    /\ walk[Len(walk)].result = "Exists"

NoMonthConfirmed == \A i \in 1..Len(walk) : walk[i].result = "ConfirmedAbsent"

WithinHorizon ==
    /\ \A i \in 1..Len(walk) :
          MonthIndex(walk[i].month) >= MonthIndex(strftime(current_date)) - HorizonMonths
    /\ steps <= HorizonMonths + 1
    /\ Len(walk) <= (HorizonMonths + 1) * ProbesPerMonth

NotFoundOnlyAfterWholeWalk ==
    (pc = "find_return" /\ group_date = None)
        => /\ NoMonthConfirmed
           /\ \A k \in 0..HorizonMonths :
                 Cardinality({i \in 1..Len(walk) : walk[i].month = MonthsBefore(k)})
                    = ProbesPerMonth

(***************************************************************************)
(* C8: from every start date and against every server the resolver ends,   *)
(* probes no month earlier than the horizon month (the same calendar month *)
(* DATE_LIMIT_YEARS before the start), and returns NotFound exactly when   *)
(* no month from the current one back to the horizon month confirmed       *)
(* existence.                                                              *)
(***************************************************************************)
NotFoundExactlyAtHorizon ==
    /\ WithinHorizon
    /\ NotFoundOnlyAfterWholeWalk
    /\ FindEnded =>
          ((pc = "find_return" /\ group_date = None) <=> NoMonthConfirmed)

\* the same, for the calls that get past the computation of the horizon
NotFoundExactlyAtHorizonUnlessRaised ==
    /\ WithinHorizon
    /\ NotFoundOnlyAfterWholeWalk
    /\ pc = "find_return" => (group_date = None <=> NoMonthConfirmed)

NotFoundReturned ==
    /\ pc = "find_return"
    /\ group_date = None
    /\ steps = HorizonMonths + 1

(***************************************************************************)
(* The retrieval of one group, on its own: every probe is definitive, and  *)
(* every fetch may succeed, fail or deliver an undersized body.            *)
(***************************************************************************)
InitSched ==
    /\ pc = "enum_begin"
    /\ current_date = Today
    /\ group_name = "General"
    /\ FindIdle
    /\ EnumIdle
    /\ DriverIdle
    /\ store = <<>>
    /\ server = [heads |-> DefinitiveProbes, gets |-> FetchScenarios,
                 maxord |-> SchedMaxOrd, maxfiles |-> SchedMaxOrd + 1, maxback |-> 0,
                 months |-> FALSE]
    /\ FnIdle

SpecSched == InitSched /\ [][NextEnum]_vars

(***************************************************************************)
(* A whole run of the script.                                              *)
(***************************************************************************)
LeapDay == [year |-> 2024, month |-> 2, day |-> 29]

InitRun ==
    /\ pc = "find_begin"
    /\ current_date \in {Today, LeapDay}
    /\ group_name = GroupOrder[1]
    /\ FindIdle
    /\ EnumIdle
    /\ DriverIdle
    /\ store = <<>>
    /\ server = [heads |-> DefinitiveProbes, gets |-> FetchScenarios,
                 maxord |-> DrvMaxOrd, maxfiles |-> DrvMaxFiles,
                 maxback |-> DrvMaxBack, months |-> FALSE]
    /\ FnIdle

NextRun ==
    \/ FindBegin
    \/ FindProbe
    \/ AfterFind
    \/ DownloadFixed
    \/ EnumBegin
    \/ EnumProbe
    \/ EnumStop
    \/ \E i \in 1..Len(tasks) : Worker(i)
    \/ EnumCollect
    \/ EnumReturn
    \/ AfterEnum
    \/ Merge

Spec == InitRun /\ [][NextRun]_vars


(***************************************************************************)
(* The scheduler of one enumeration: submission order and dropped tasks.   *)
(***************************************************************************)
\* the filenames of those of the first n tasks whose future gave True, in
\* the order of submission
RECURSIVE SucceededUpTo(_)
SucceededUpTo(n) ==
    IF n = 0 THEN <<>>
    ELSE IF futures[n].done /\ futures[n].result
         THEN Append(SucceededUpTo(n - 1), tasks[n].filename)
         ELSE SucceededUpTo(n - 1)

SubmittedAscending ==
    \A i, j \in 1..Len(tasks) : i < j => tasks[i].iter < tasks[j].iter

\* a task that is not done and has a worker can run whatever became of the
\* other tasks
SiblingsNotAborted ==
    \A i \in 1..Len(tasks) :
        (pc \in {"enum_loop", "enum_collect"} /\ ~futures[i].done /\ Started(i))
            => ENABLED Worker(i)

\* C5: the list an enumeration returns holds the filenames of exactly the
\* tasks that succeeded, in the order in which the tasks were submitted
\* (ascending ordinal), whatever the order in which the downloads finished;
\* a task that failed is left out and stops no other task.
SubmissionOrderPreserved ==
    /\ SubmittedAscending
    /\ SiblingsNotAborted
    /\ collected = 1..Cardinality(collected)
    /\ \A i \in collected : futures[i].done
    /\ downloaded_files = SucceededUpTo(Cardinality(collected))
    /\ pc = "enum_return" =>
          /\ collected = 1..Len(tasks)
          /\ downloaded_files = SucceededUpTo(Len(tasks))

\* three tasks, the second failed, a later one finished before an earlier
\* one, and the list returned is the first and the third
FailedTaskDroppedOutOfOrder ==
    /\ pc = "enum_return"
    /\ overtaken
    /\ Len(tasks) = 3
    /\ futures[1].result /\ ~futures[2].result /\ futures[3].result
    /\ downloaded_files = <<tasks[1].filename, tasks[3].filename>>

(***************************************************************************)
(* The whole run: sizes of the stored files, skipped groups, order.        *)
(***************************************************************************)
\* the lists of files the run holds: the compiled list, the list of the
\* enumeration under way, the list handed to the merge
ListedFiles ==
    Range(all_downloaded_files) \cup Range(downloaded_files)
        \cup (IF output = None THEN {} ELSE Range(output.pages))

\* task i ended on a body below the minimum size
EndedUndersized(i) ==
    /\ futures[i].done
    /\ fetched[i] # None
    /\ fetched[i][1] # RequestException
    /\ fetched[i][1] < MIN_FILE_SIZE

\* C6: every file in the compiled list is stored with at least MIN_FILE_SIZE
\* bytes; a download that stored a smaller body has removed the file and
\* returned False, its file is in no list, and the tasks beside it still run.
MinimumSizeInvariant ==
    /\ \A f \in ListedFiles : f \in Stored(store) /\ getsize(store, f) >= MIN_FILE_SIZE
    /\ \A f \in Stored(store) : getsize(store, f) >= MIN_FILE_SIZE
    /\ \A i \in 1..Len(tasks) :
          EndedUndersized(i) =>
              /\ ~futures[i].result
              /\ tasks[i].filename \notin Stored(store)
              /\ tasks[i].filename \notin ListedFiles
    /\ (\E i \in 1..Len(tasks) : EndedUndersized(i)) =>
          /\ pc # "aborted"
          /\ \A j \in 1..Len(tasks) :
                (pc \in {"enum_loop", "enum_collect"} /\ ~futures[j].done /\ Started(j))
                    => ENABLED Worker(j)

\* Scenario D: the first task of General received 50 bytes, its file is not
\* stored, the second task went on and its file alone is returned
ScenarioD ==
    /\ pc = "enum_return"
    /\ group_name = "General"
    /\ Len(tasks) = 2
    /\ fetched[1] = <<50>>
    /\ iterable_filename("General", 0) \notin Stored(store)
    /\ futures[2].result
    /\ downloaded_files = <<iterable_filename("General", 1)>>
    /\ getsize(store, iterable_filename("General", 1)) = MIN_FILE_SIZE

\* the group a filename belongs to, and its ordinal (-1 for a fixed file)
GroupOf(f) == f[1]
OrdinalOf(f) == IF Len(f) = 4 THEN f[3] ELSE -1

\* the groups the driver has left behind
Processed == {GroupOrder[k] : k \in 1..(gi - 1)}

\* C9: a group for which the resolver returned None is skipped and the run
\* goes on: no download probe and no fetch is made for it, no file of it is
\* stored or listed, the run is not aborted, and each group the driver has
\* left behind was either not found or taken to its download; at the merge
\* every group has been left behind.
NotFoundGroupSkipped ==
    /\ \A g \in not_found :
          /\ g \notin dl_groups
          /\ \A f \in ListedFiles \cup Stored(store) : GroupOf(f) # g
          /\ (group_name = g /\ pc # "done") => (tasks = <<>> /\ pc \notin {"enum_begin", "enum_loop", "fixed"})
    /\ not_found # {} => pc # "aborted"
    /\ Processed \subseteq (not_found \cup dl_groups)
    /\ pc \in {"merge", "done"} => Processed = Groups

\* Heading and EnRoute were not found, and the run still compiled a file of
\* General and the Amendment, which come after them
SkippedThenCompiled ==
    /\ pc = "done"
    /\ not_found = {"Heading", "EnRoute"}
    /\ output # None
    /\ output.pages = <<iterable_filename("General", 0), fixed_filename("Amendment")>>

\* the order the groups are compiled in
Priority ==
    <<"Heading", "General", "EnRoute", "Aerodromes", "Additional_Aerodromes",
      "Amendment">>
PriorityOf(g) == CHOOSE k \in 1..Len(Priority) : Priority[k] = g

Before(f, h) ==
    \/ PriorityOf(GroupOf(f)) < PriorityOf(GroupOf(h))
    \/ /\ GroupOf(f) = GroupOf(h)
       /\ is_iterable(GroupOf(f))
       /\ OrdinalOf(f) < OrdinalOf(h)

Ordered(list) == \A i, j \in 1..Len(list) : i < j => Before(list[i], list[j])

\* C10: the compiled list, and the list handed to the merge, is strictly in
\* the order of the groups' priority and, inside an iterable group, of
\* strictly ascending ordinal, whatever the order the downloads finished in
\* and whatever was skipped.
CompiledInPriorityOrder ==
    /\ Ordered(all_downloaded_files)
    /\ Ordered(downloaded_files)
    /\ pc = "enum_return" => Ordered(all_downloaded_files \o downloaded_files)
    /\ output # None => (output.pages = all_downloaded_files /\ Ordered(output.pages))

\* Heading was not found, the second file of General was downloaded before
\* the first, and the merge received them in ascending ordinal
OutOfOrderCompletionMerged ==
    /\ pc = "done"
    /\ overtaken
    /\ "Heading" \in not_found
    /\ output # None
    /\ output.pages = <<iterable_filename("General", 0), iterable_filename("General", 1)>>

(***************************************************************************)
(* The name of the compiled document.  The same run, with the history of   *)
(* the resolved months kept.                                               *)
(***************************************************************************)
InitName ==
    /\ pc = "find_begin"
    /\ current_date \in {Today, LeapDay}
    /\ group_name = GroupOrder[1]
    /\ FindIdle
    /\ EnumIdle
    /\ DriverIdle
    /\ store = <<>>
    /\ server = [heads |-> DefinitiveProbes, gets |-> FetchScenarios,
                 maxord |-> DrvMaxOrd, maxfiles |-> DrvMaxFiles,
                 maxback |-> DrvMaxBack, months |-> TRUE]
    /\ FnIdle

SpecName == InitName /\ [][NextRun]_vars

\* the YYYY-MM in the name of the compiled document
NameMonth == output.name[2]

\* C11: when a compiled document is written, the YYYY-MM of its name is the
\* month the date resolver returned for the groups that were compiled.
NamedFromResolvedMonth ==
    output # None => \A m \in compiled_months : NameMonth = m

\* every compiled group resolved to January 2025, one month before the run,
\* and the document is named 2025-02
NamedFromCurrentMonth ==
    /\ pc = "done"
    /\ current_date = Today
    /\ output # None
    /\ compiled_months = {<<2025, 1>>}
    /\ NameMonth = <<2025, 2>>

(***************************************************************************)
(* The end of the run.                                                     *)
(***************************************************************************)
\* C12: the merger is called and a compiled document written if and only if
\* the driver's list is not empty; with an empty list the run still comes to
\* its normal end, with no document.
EmptyCompilationEndsCleanly ==
    /\ output # None => (pc = "done" /\ output.pages # <<>>)
    /\ pc = "done" => (output # None <=> all_downloaded_files # <<>>)
    /\ pc = "merge" => (output = None /\ ENABLED Merge)
    /\ (all_downloaded_files = <<>> /\ Processed = Groups) => pc \in {"merge", "done"}

\* a finished run in which groups were resolved and probed for download, no
\* file was retrieved and no document was written
EndedWithNothingCompiled ==
    /\ pc = "done"
    /\ all_downloaded_files = <<>>
    /\ output = None
    /\ dl_groups # {}
    /\ not_found # {}

(***************************************************************************)
(* The attempts of one call of url_exists.                                 *)
(***************************************************************************)
\* the number of HEAD requests of the call
Heads(events) == Cardinality({i \in 1..Len(events) : events[i] = "HEAD"})

\* C13: inside one call of url_exists every retry, after another status as
\* after a network failure, comes after a wait of 2^attempt seconds: no two
\* HEAD requests follow each other without a wait between them.
BackoffBeforeEveryRetry ==
    pc = "probe_done" =>
        /\ \A i \in 1..(Len(fn_out.events) - 1) :
              ~(fn_out.events[i] = "HEAD" /\ fn_out.events[i + 1] = "HEAD")
        /\ Len(fn_out.sleeps) = Heads(fn_out.events) - 1
        /\ \A k \in 1..Len(fn_out.sleeps) : fn_out.sleeps[k] = Pow2(k - 1)

\* 500, 503, then 200: three HEAD requests one after the other, no wait
RetriedAtOnceAfterStatus ==
    /\ pc = "probe_done"
    /\ fn_in = <<500, 503, 200>>
    /\ fn_out.events = <<"HEAD", "HEAD", "HEAD">>
    /\ fn_out.sleeps = <<>>
    /\ fn_out.ret

(***************************************************************************)
(* The enumeration of one group against a server that never has to answer  *)
(* 404: every probe may be answered with any status, or fail, at every     *)
(* ordinal.  The ordinals grow without end, so the ordinal, the tasks and   *)
(* the history are followed up to the probe of ordinal ProbeCap - 1; the   *)
(* probes after it still move the miss counter.                            *)
(***************************************************************************)
InitLoop ==
    /\ pc = "enum_begin"
    /\ current_date = Today
    /\ group_name = "General"
    /\ FindIdle
    /\ EnumIdle
    /\ DriverIdle
    /\ store = <<>>
    /\ server = [heads |-> ProbeScenarios, gets |-> GoodFetches, maxord |-> ProbeCap,
                 maxfiles |-> ProbeCap + 1, maxback |-> 0, months |-> FALSE]
    /\ FnIdle

\* lines 137-150, for the ordinals below ProbeCap
EnumProbeCapped ==
    /\ iter_num < ProbeCap
    /\ EnumProbe

\* lines 137-150, for the ordinals from ProbeCap on: the probe and the miss
\* counter, with the ordinal and the tasks no longer followed
EnumProbeBeyond ==
    /\ pc = "enum_loop"
    /\ LoopGuard(consecutive_404s)
    /\ iter_num >= ProbeCap
    /\ \E resp \in server.heads :
         consecutive_404s' = Count(url_exists(resp).ret, consecutive_404s)
    /\ UNCHANGED <<pc, current_date, group_name, findVars, iter_num, tasks, futures,
                   collected, downloaded_files, probes, fetched, overtaken,
                   driverVars, histVars, store, server, fnVars>>

NextLoop ==
    \/ EnumBegin
    \/ EnumProbeCapped
    \/ EnumProbeBeyond
    \/ EnumStop
    \/ \E i \in 1..Len(tasks) : Worker(i)
    \/ EnumCollect
    \/ EnumReturn

\* the main thread and the workers of the pool all keep running
SpecLoop == InitLoop /\ [][NextLoop]_vars /\ WF_vars(NextLoop)

\* C14: whatever the server answers, the enumeration makes finitely many
\* probes and returns.
EnumerationReturns == <>(pc = "enum_return")

\* every ordinal below ProbeCap was probed, none of the last
\* MAX_CONSECUTIVE_404S probes was answered 404, and the loop goes on
StillProbingAtCap ==
    /\ pc = "enum_loop"
    /\ iter_num = ProbeCap
    /\ consecutive_404s = 0
    /\ \A i \in 1..Len(probes) : probes[i].result = "Indeterminate"
    /\ Len(tasks) = ProbeCap
    /\ \A i \in 1..Len(tasks) : futures[i].done
    /\ ENABLED EnumProbe

(***************************************************************************)
(* Errors of the date resolver.                                            *)
(***************************************************************************)
\* C15: from every current date and against every server, the date resolver
\* computes its horizon and ends by returning a month or None; it never
\* ends in an exception.
ResolverNeverRaises ==
    /\ pc # "aborted"
    /\ pc \notin {"find_begin", "aborted"} => ValidDate(limit_date)
    /\ test_date # None => ValidDate(test_date)

\* started on 29 February 2024, the call has ended in the ValueError of
\* replace(year=2022) without a single probe
RaisedOnLeapDay ==
    /\ pc = "aborted"
    /\ current_date = LeapDay
    /\ walk = <<>>
    /\ group_date = None
    /\ ~ValidDate(LimitDate(current_date))

(***************************************************************************)
(* Concurrency across the groups and between the tasks.                    *)
(***************************************************************************)
\* the tasks whose download has not ended
InFlight == {i \in 1..Len(tasks) : ~futures[i].done}

InEnumeration == pc \in {"enum_loop", "enum_collect", "enum_return"}

\* C16: the downloads in flight all belong to the group at hand, and the
\* driver resolves or probes the next group only when every task of the
\* group before has completed and has been collected.
OneGroupAtATime ==
    /\ \A i \in 1..Len(tasks) : GroupOf(tasks[i].filename) = group_name
    /\ InFlight # {} => pc \in {"enum_loop", "enum_collect"}
    /\ ~InEnumeration => tasks = <<>>
    /\ pc = "enum_return" => (InFlight = {} /\ collected = 1..Len(tasks))
    /\ \A g \in dl_groups : g = group_name \/ g \in Processed

\* a file of General is compiled and a download of EnRoute is in flight
NextGroupInFlight ==
    /\ group_name = "EnRoute"
    /\ InFlight # {}
    /\ all_downloaded_files = <<iterable_filename("General", 0)>>

NoDuplicates(list) == \A i, j \in 1..Len(list) : i # j => list[i] # list[j]

\* C17: no two tasks in flight at the same time write the same file, and
\* every task of the run has a file name of its own: the group and the
\* ordinal for an iterable group, the group for a fixed one.
NoWriteContention ==
    /\ \A i, j \in 1..Len(tasks) : i # j => tasks[i].filename # tasks[j].filename
    /\ \A i \in 1..Len(tasks) :
          /\ tasks[i].filename = <<group_name, "_", tasks[i].iter, ".pdf">>
          /\ tasks[i].filename \notin Range(all_downloaded_files)
          /\ ~futures[i].done => tasks[i].filename \notin Stored(store)
    /\ NoDuplicates(all_downloaded_files \o downloaded_files)
    /\ pc = "fixed" =>
          /\ fixed_filename(group_name) = <<group_name, ".pdf">>
          /\ fixed_filename(group_name) \notin Stored(store)
          /\ InFlight = {}

\* the downloads of ordinals 0 and 1 of General are in flight together,
\* each to its own file
TwoInFlightTwoFiles ==
    /\ group_name = "General"
    /\ Len(tasks) = 2
    /\ InFlight = {1, 2}
    /\ tasks[1].filename = <<"General", "_", 0, ".pdf">>
    /\ tasks[2].filename = <<"General", "_", 1, ".pdf">>

(***************************************************************************)
(* The bounds on the attempts of a probe and of a fetch.                   *)
(***************************************************************************)
Definitive(status) == status \in {200, 404}

\* C18: a call of url_exists makes at least one and at most max_retries = 3
\* HEAD requests, none after the first answer 200 or 404, on which it
\* returns at once, and exactly 3 when no answer is 200 or 404.
ProbeRetryBound ==
    pc = "probe_done" =>
        LET n == Heads(fn_out.events)
        IN  /\ max_retries = 3
            /\ 1 <= n /\ n <= 3
            /\ Len(fn_out.seen) = n
            /\ \A i \in 1..n : fn_out.seen[i] = fn_in[i]
            /\ \A i \in 1..(n - 1) : ~Definitive(fn_out.seen[i])
            /\ fn_out.seen[n] = 200 => fn_out.ret
            /\ fn_out.seen[n] = 404 => ~fn_out.ret
            /\ n < 3 => Definitive(fn_out.seen[n])
            /\ (\A i \in 1..3 : ~Definitive(fn_in[i])) => n = 3

\* 503, then 404: the second request is the last, 200 as third answer is
\* never asked for
StoppedAtFirst404 ==
    /\ pc = "probe_done"
    /\ fn_in = <<503, 404, 200>>
    /\ fn_out.seen = <<503, 404>>
    /\ ~fn_out.ret

(***************************************************************************)
(* One call of download_pdf, for every answer to its GET attempts: a body  *)
(* of some size, or a RequestException (a network-level failure, or the    *)
(* HTTPError of raise_for_status on an error status).                      *)
(***************************************************************************)
InitFetch ==
    /\ pc = "fetch_call"
    /\ current_date = Today
    /\ group_name = "General"
    /\ FindIdle
    /\ EnumIdle
    /\ DriverIdle
    /\ store = <<>>
    /\ server = [heads |-> {}, gets |-> GetResponses, maxord |-> 0, maxfiles |-> 0,
                 maxback |-> 0, months |-> FALSE]
    /\ fn_in \in server.gets
    /\ fn_out = None

FetchCall ==
    /\ pc = "fetch_call"
    /\ fn_out' = download_pdf(store, iterable_filename(group_name, 0), fn_in)
    /\ store' = fn_out'.store
    /\ pc' = "fetch_done"
    /\ UNCHANGED <<current_date, group_name, findVars, enumVars, driverVars, histVars,
                   server, fn_in>>

NextFetch == FetchCall

SpecFetch == InitFetch /\ [][NextFetch]_vars

Failed(answer) == answer = RequestException

\* C19: a call of download_pdf makes at most max_retries = 3 GET requests
\* and retries only after a failed request; it returns False after the 3rd
\* failed request, returns True only if an attempt stored a body of at least
\* MIN_FILE_SIZE bytes, and on a smaller body returns False on that attempt
\* with no further request.
FetchRetryBound ==
    pc = "fetch_done" =>
        LET n == Len(fn_out.seen)
            file == iterable_filename(group_name, 0)
        IN  /\ 1 <= n /\ n <= 3
            /\ \A i \in 1..n : fn_out.seen[i] = fn_in[i]
            /\ \A i \in 1..(n - 1) : Failed(fn_out.seen[i])
            /\ Failed(fn_out.seen[n]) => (n = 3 /\ ~fn_out.ret)
            /\ fn_out.ret =>
                  /\ ~Failed(fn_out.seen[n])
                  /\ fn_out.seen[n] >= MIN_FILE_SIZE
                  /\ file \in Stored(store)
                  /\ getsize(store, file) = fn_out.seen[n]
            /\ (~Failed(fn_out.seen[n]) /\ fn_out.seen[n] < MIN_FILE_SIZE) =>
                  /\ ~fn_out.ret
                  /\ fn_out.removed
                  /\ file \notin Stored(store)
            /\ ~fn_out.ret => file \notin Stored(store)

\* a failed request, then a body of MIN_FILE_SIZE - 1 bytes: False on the
\* second attempt, the good third answer is never asked for
UndersizedEndsTheFetch ==
    /\ pc = "fetch_done"
    /\ fn_in = <<RequestException, MIN_FILE_SIZE - 1, 4096>>
    /\ fn_out.seen = <<RequestException, MIN_FILE_SIZE - 1>>
    /\ ~fn_out.ret
    /\ fn_out.removed
    /\ store = <<>>

(***************************************************************************)
(* The date resolver and then the enumeration of the month it returned,    *)
(* for the iterable groups, against a stable server.                       *)
(***************************************************************************)
StableFiles == (0..StableBack) \X (0..StableOrd)

InitStable ==
    /\ pc = "find_begin"
    /\ current_date = Today
    /\ group_name = "General"
    /\ FindIdle
    /\ EnumIdle
    /\ DriverIdle
    /\ store = <<>>
    /\ \E has \in SUBSET StableFiles :
         server = [heads |-> {<<200, 200, 200>>, <<404, 404, 404>>},
                   gets |-> GoodFetches, maxord |-> StableOrd,
                   maxfiles |-> StableOrd + 1, maxback |-> StableBack,
                   months |-> FALSE, has |-> has]
    /\ FnIdle

NextStable ==
    \/ FindBegin
    \/ FindProbe
    \/ AfterFind
    \/ EnumBegin
    \/ EnumProbe
    \/ EnumStop
    \/ \E i \in 1..Len(tasks) : Worker(i)
    \/ EnumCollect
    \/ EnumReturn

SpecStable == InitStable /\ [][NextStable]_vars

\* the ordinal of the month `back` at which the resolver's probes 0, 1 find
\* a file of the stable server
AcceptedOrdinal(back) == IF <<back, 0>> \in server.has THEN 0 ELSE 1

\* the resolver probed ordinal 0 of each month, and ordinal 1 only after
\* ordinal 0 of that month was answered 404
ProbedOnlyZeroAndOne ==
    \A i \in 1..Len(walk) :
        /\ walk[i].iter \in {0, 1}
        /\ walk[i].iter = 0 => (i = 1 \/ walk[i - 1].back = walk[i].back - 1)
        /\ walk[i].iter = 1 =>
              /\ i > 1
              /\ walk[i - 1].back = walk[i].back
              /\ walk[i - 1].iter = 0
              /\ walk[i - 1].result = "ConfirmedAbsent"

\* C20: against a stable server that answers 200 or 404, a month returned
\* by the resolver for an iterable group was accepted on ordinal 0 or 1,
\* with only these two probed, and the enumeration of that month submits a
\* download task for the accepting ordinal: at least one task.
EnumeratorFindsWhatResolverFound ==
    is_iterable(group_name) =>
        /\ ProbedOnlyZeroAndOne
        /\ (pc = "find_return" /\ group_date # None) =>
              LET last == walk[Len(walk)]
              IN  /\ last.result = "Exists"
                  /\ last.back = BackOf(group_date)
                  /\ last.iter = AcceptedOrdinal(last.back)
                  /\ <<last.back, last.iter>> \in server.has
        /\ pc \in {"enum_collect", "enum_return"} =>
              /\ Len(tasks) >= 1
              /\ \E i \in 1..Len(tasks) :
                    tasks[i].iter = AcceptedOrdinal(BackOf(group_date))
              /\ {tasks[i].iter : i \in 1..Len(tasks)}
                    = {n \in 0..StableOrd : <<BackOf(group_date), n>> \in server.has}

\* nothing this month; last month the server has ordinals 1 and 2 only: the
\* resolver returned last month and the enumeration submitted 1 and 2
AcceptedOnOrdinalOne ==
    /\ pc = "enum_return"
    /\ group_name = "General"
    /\ server.has = {<<1, 1>>, <<1, 2>>}
    /\ group_date = <<2025, 1>>
    /\ Len(tasks) = 2
    /\ tasks[1].iter = 1 /\ tasks[2].iter = 2
    /\ probes[1].result = "ConfirmedAbsent"

=============================================================================
